---- MODULE Spec2Model ----
(***************************************************************************)
(* A model of the educational-video pipeline: EducationalVideoPipeline     *)
(* (main.py), AudioProcessor (video_generation/audio_processor.py) and     *)
(* VideoComposer (video_generation/video_composer.py).                     *)
(*                                                                         *)
(* Strings and paths are sequences of tokens.  A token is either one of    *)
(* the characters that matter to a parser (quote, newline, space, tab,     *)
(* backslash) or a run of ordinary characters ("renders/", ".mp4").        *)
(* Durations are integers (seconds); a speed ratio is an exact rational    *)
(* <<n, d>> with d > 0, so the only rounding in the model is the one the   *)
(* code asks for (the %.3f of the filter string).                          *)
(***************************************************************************)
EXTENDS Integers, Sequences, FiniteSets, TLC

\* ------------------------------------------------------------------ bounds
\* Scenes per content structure, and clips per list of a direct call.
MaxScenes == 2
\* Durations (probed and target) range over 0..MaxDur seconds; a direct call
\* of process_audio also gets the target -1.
MaxDur == 8
\* The loop of _split_speed_factor is followed for at most MaxStages
\* iterations.  A positive ratio needs at most log2(MaxDur) of them; a ratio
\* of zero or less keeps the loop condition true for ever, and the model
\* stops following it there.
MaxStages == 6
\* Tokens per path and paths per list when the manifest is examined alone.
MaxPathLen == 2
MaxList == 2

VARIABLES
    mode,              \* which entry point was called
    pc,                \* position in the code
    scenes,            \* structure["scenes"]
    title,             \* structure["video_metadata"]["title"]
    idx,               \* loop index of _render_scenes / _generate_audio
    scene_videos,      \* list of rendered clips
    audio_files,       \* list of aligned clips
    wav_path,          \* process_audio: argument
    target_duration,   \* process_audio: argument
    current_duration,  \* process_audio: probed duration
    remaining,         \* _split_speed_factor: remaining
    factors,           \* _split_speed_factor: factors
    filters,           \* process_audio: the atempo values, in thousandths
    fs,                \* the files that exist
    concat_text,       \* content last written to concat.txt
    audio_concat_text, \* content last written to audio_concat.txt
    demuxed,           \* what the concat demuxer last read out of a manifest
    procs,             \* the external processes launched, in order
    written,           \* the files written or created during this call
    err,               \* the exception that reached the caller
    result             \* the value returned to the caller

vars == <<mode, pc, scenes, title, idx, scene_videos, audio_files, wav_path,
          target_duration, current_duration, remaining, factors, filters, fs,
          concat_text, audio_concat_text, demuxed, procs, written, err, result>>

\* ------------------------------------------------------------ strings, paths
SQ == "'"
NL == "\n"
SP == " "
TAB == "\t"
BS == "\\"

NoPath == <<>>

\* Path.resolve(): the path made absolute against the working directory.
resolve(p) == <<"/cwd/">> \o p

\* str.replace(old, new) on a token string.
replace(s, old, new) == [i \in 1..Len(s) |-> IF s[i] = old THEN new ELSE s[i]]

\* VideoComposer.output_dir / name
output_dir(name) == <<"final_videos/">> \o name

concat_file == output_dir(<<"concat.txt">>)
video_no_audio == output_dir(<<"temp_no_audio", ".mp4">>)
audio_concat_file == output_dir(<<"audio_concat.txt">>)
merged_path == output_dir(<<"merged_audio.wav">>)

\* self.output_dir / f"{metadata['title'].replace(' ', '_')}.mp4"
final_path(t) == output_dir(replace(t, SP, "_") \o <<".mp4">>)

\* SceneRenderer.render_scene: self.output_dir / f"{scene_name}.mp4"
render_path(scene_name) == <<"renders/", scene_name, ".mp4">>

\* _create_scene_file: Path(f"temp_{scene['scene_name']}.py")
scene_file(scene_name) == <<"temp_", scene_name, ".py">>

\* A speech file name that leaves the scene number out.
audio_path_unnumbered(scene_number) == <<"audio", ".wav">>

\* _generate_audio: f"audio_{scene['scene_number']}.wav"
audio_path(scene_number) == <<"audio_", ToString(scene_number), ".wav">>

\* wav_path.with_stem(wav_path.stem + "_proc"): the suffix is kept.
processed_path(p) ==
    IF Len(p) = 0 THEN <<"_proc">>
    ELSE SubSeq(p, 1, Len(p) - 1) \o <<"_proc", p[Len(p)]>>

\* ------------------------------------------------------------ concat manifest
RECURSIVE JoinLines(_)
JoinLines(ls) ==
    IF ls = <<>> THEN <<>>
    ELSE IF Len(ls) = 1 THEN ls[1]
    ELSE ls[1] \o <<NL>> \o JoinLines(Tail(ls))

\* f"file '{v.resolve()}'"
FileLine(p) == <<"file", SP, SQ>> \o resolve(p) \o <<SQ>>

\* "\n".join(f"file '{v.resolve()}'" for v in videos)
generate_concat_list(videos) ==
    JoinLines([i \in 1..Len(videos) |-> FileLine(videos[i])])

\* --- the reader of the manifest: ffmpeg -f concat -safe 0 -i <manifest> -----
Whitespace == {SP, TAB, "\r"}

FirstNL(t) ==
    IF \E i \in 1..Len(t) : t[i] = NL
    THEN CHOOSE i \in 1..Len(t) : t[i] = NL /\ \A j \in 1..(i - 1) : t[j] # NL
    ELSE 0

RECURSIVE SplitLines(_)
SplitLines(t) ==
    LET i == FirstNL(t)
    IN  IF i = 0 THEN <<t>>
        ELSE <<SubSeq(t, 1, i - 1)>> \o SplitLines(SubSeq(t, i + 1, Len(t)))

RECURSIVE SkipSpaces(_, _)
SkipSpaces(s, i) ==
    IF i <= Len(s) /\ s[i] \in Whitespace THEN SkipSpaces(s, i + 1) ELSE i

RECURSIVE WordEnd(_, _)
WordEnd(s, i) ==
    IF i <= Len(s) /\ s[i] \notin Whitespace THEN WordEnd(s, i + 1) ELSE i

\* ffmpeg's token reader: '...' quotes literally up to the next quote, a
\* backslash outside quotes escapes the next character, unquoted whitespace
\* ends the token.
RECURSIVE av_get_token(_, _, _)
av_get_token(s, i, inq) ==
    IF i > Len(s) THEN <<>>
    ELSE IF inq THEN
        IF s[i] = SQ THEN av_get_token(s, i + 1, FALSE)
        ELSE <<s[i]>> \o av_get_token(s, i + 1, TRUE)
    ELSE IF s[i] \in Whitespace THEN <<>>
    ELSE IF s[i] = BS /\ i < Len(s) THEN <<s[i + 1]>> \o av_get_token(s, i + 2, FALSE)
    ELSE IF s[i] = SQ THEN av_get_token(s, i + 1, TRUE)
    ELSE <<s[i]>> \o av_get_token(s, i + 1, FALSE)

\* One line of the script: empty and comment lines are skipped, "file" takes
\* one token, anything else is an unknown keyword.
ParseLine(line) ==
    LET k0 == SkipSpaces(line, 1)
        k1 == WordEnd(line, k0)
        keyword == SubSeq(line, k0, k1 - 1)
        a0 == SkipSpaces(line, k1)
        tok == av_get_token(line, a0, FALSE)
    IN  IF keyword = <<>> \/ keyword[1] = "#" THEN [ok |-> TRUE, files |-> <<>>]
        ELSE IF keyword = <<"file">> /\ tok # <<>> THEN [ok |-> TRUE, files |-> <<tok>>]
        ELSE [ok |-> FALSE, files |-> <<>>]

RECURSIVE ParseLines(_)
ParseLines(ls) ==
    IF ls = <<>> THEN [ok |-> TRUE, files |-> <<>>]
    ELSE LET h == ParseLine(ls[1])
             t == ParseLines(Tail(ls))
         IN  IF h.ok /\ t.ok THEN [ok |-> TRUE, files |-> h.files \o t.files]
             ELSE [ok |-> FALSE, files |-> <<>>]

\* The ordered file list the concat demuxer gets out of a manifest.
concat_demuxer_read(text) == ParseLines(SplitLines(text))

NotRead == [ok |-> FALSE, files |-> <<>>]
NothingRead == [video |-> NotRead, audio |-> NotRead]

\* ------------------------------------------------------------------ numbers
Abs(x) == IF x < 0 THEN -x ELSE x

RECURSIVE Gcd(_, _)
Gcd(a, b) == IF b = 0 THEN a ELSE Gcd(b, a % b)

\* The value n/d (d # 0) in lowest terms with a positive denominator.
Rat(n, d) ==
    LET g == Gcd(Abs(n), Abs(d))
        s == IF d < 0 THEN -1 ELSE 1
    IN  <<(s * n) \div g, (s * d) \div g>>

Two == <<2, 1>>
Half == <<1, 2>>
NoRat == <<0, 1>>

Lt(a, b) == a[1] * b[2] < b[1] * a[2]
Leq(a, b) == a[1] * b[2] <= b[1] * a[2]
Div(a, b) == Rat(a[1] * b[2], a[2] * b[1])

\* speed_factor = current_duration / target_duration     (target # 0)
speed_factor(cur, target) == Rat(cur, target)

\* while remaining < 0.5 or remaining > 2.0:
LoopCondEq(r) == Leq(r, Half) \/ Leq(Two, r)
LoopCond(r) == Lt(r, Half) \/ Lt(Two, r)

\* segment = 2.0 if remaining > 2.0 else 0.5
Segment(r) == IF Lt(Two, r) THEN Two ELSE Half

\* factors.append(remaining); return factors
split_return_dropped(fs_, r) == fs_
split_return(fs_, r) == Append(fs_, r)

\* f"{f:.3f}": the value in thousandths, rounded to nearest, ties to even.
format_3f(f) ==
    LET t == 1000 * f[1]
        q == t \div f[2]
        m == t % f[2]
    IN  IF 2 * m > f[2] THEN q + 1
        ELSE IF 2 * m = f[2] THEN q + (q % 2)
        ELSE q

\* filters.extend([f"atempo={f:.3f}" for f in factors])
atempo_filters(fcts) == [i \in 1..Len(fcts) |-> format_3f(fcts[i])]

\* ---------------------------------------------------------------- processes
NoCmd == [stage |-> "none", prog |-> "none", inputs |-> <<>>, output |-> NoPath]
Cmd(stage, prog, inputs, output) ==
    [stage |-> stage, prog |-> prog, inputs |-> inputs, output |-> output]

NoErr == [type |-> "none", cmd |-> NoCmd]
Error(type, cmd) == [type |-> type, cmd |-> cmd]

\* ------------------------------------------------------------------- inputs
SceneDurations == {-1, 0, 2}
Titles == {<<"a", SP, "b">>, <<"a", TAB, "b">>, <<"temp_no_audio">>}

SceneName(n) == "S" \o ToString(n)

Scene(n, d) ==
    [scene_number |-> n, scene_name |-> SceneName(n), duration_seconds |-> d]

\* The scene lists: up to MaxScenes records with distinct scene numbers, in
\* any order.
SceneLists ==
    UNION {
      { [i \in 1..k |-> Scene(ord[i], dur[i])] :
          ord \in { o \in [1..k -> 1..MaxScenes] :
                      \A i, j \in 1..k : i # j => o[i] # o[j] },
          dur \in [1..k -> SceneDurations] }
      : k \in 0..MaxScenes }

\* for scene in structure["scenes"]: the scene of the i-th iteration.
SceneAtReversed(i) == scenes[Len(scenes) + 1 - i]
SceneAt(i) == scenes[i]

Unset ==
    /\ wav_path = NoPath
    /\ target_duration = 0
    /\ current_duration = 0
    /\ remaining = NoRat
    /\ factors = <<>>
    /\ filters = <<>>

Clean ==
    /\ fs = {}
    /\ concat_text = <<>>
    /\ audio_concat_text = <<>>
    /\ demuxed = NothingRead
    /\ procs = <<>>
    /\ written = {}
    /\ err = NoErr
    /\ result = NoPath

\* generate_video(request), after the content structure has been produced.
InitPipeline ==
    /\ mode = "pipeline"
    /\ pc = "render"
    /\ scenes \in SceneLists
    /\ title \in Titles
    /\ idx = 1
    /\ scene_videos = <<>>
    /\ audio_files = <<>>
    /\ Unset
    /\ Clean

\* compose_final_video(scene_videos, audio_files, metadata) called directly.
InitCompose ==
    /\ mode = "compose"
    /\ pc = "compose"
    /\ scenes = <<>>
    /\ title \in Titles
    /\ idx = 1
    /\ \E m \in 0..MaxScenes :
           scene_videos = [i \in 1..m |-> render_path(SceneName(i))]
    /\ \E k \in 0..MaxScenes :
           audio_files = [i \in 1..k |-> processed_path(audio_path(i))]
    /\ Unset
    /\ Clean

\* process_audio(wav_path, target_duration) called directly.
InitAudio ==
    /\ mode = "audio"
    /\ pc = "pa_probe"
    /\ scenes = <<>>
    /\ title = <<>>
    /\ idx = 1
    /\ scene_videos = <<>>
    /\ audio_files = <<>>
    /\ wav_path = audio_path(1)
    /\ target_duration \in -1..MaxDur
    /\ current_duration = 0
    /\ remaining = NoRat
    /\ factors = <<>>
    /\ filters = <<>>
    /\ Clean

Init == InitPipeline \/ InitCompose

\* ------------------------------------------------------------------ actions
\* An exception leaves the call: generate_video logs it and re-raises.
Raise(type, cmd) ==
    /\ pc' = "failed"
    /\ err' = Error(type, cmd)

Launch(cmd) == procs' = Append(procs, cmd)

\* _render_scenes: one iteration of the loop, or its end.
RenderScene ==
    /\ pc = "render"
    /\ idx <= Len(scenes)
    /\ LET name == SceneAt(idx)["scene_name"]
           cmd == Cmd("render", "manim", <<scene_file(name)>>, render_path(name))
       IN  /\ Launch(cmd)
           /\ \/ \* manim exits 0, the clip is found and copied
                 /\ scene_videos' = Append(scene_videos, render_path(name))
                 /\ fs' = fs \cup {render_path(name)}
                 /\ written' = written \cup {scene_file(name), render_path(name)}
                 /\ idx' = idx + 1
                 /\ UNCHANGED <<pc, err>>
              \/ \* manim exits non-zero
                 /\ Raise("CalledProcessError", cmd)
                 /\ fs' = fs \cup {scene_file(name)}
                 /\ written' = written \cup {scene_file(name)}
                 /\ UNCHANGED <<scene_videos, idx>>
              \/ \* manim exits 0 and no MP4 is found
                 /\ Raise("FileNotFoundError", cmd)
                 /\ fs' = fs \cup {scene_file(name)}
                 /\ written' = written \cup {scene_file(name)}
                 /\ UNCHANGED <<scene_videos, idx>>
              \/ \* the clip is copied, and unlink() meets a directory under media/
                 /\ Raise("OSError", cmd)
                 /\ fs' = fs \cup {scene_file(name), render_path(name)}
                 /\ written' = written \cup {scene_file(name), render_path(name)}
                 /\ UNCHANGED <<scene_videos, idx>>
    /\ UNCHANGED <<mode, scenes, title, audio_files, wav_path, target_duration,
                   current_duration, remaining, factors, filters, concat_text,
                   audio_concat_text, demuxed, result>>

RenderDone ==
    /\ pc = "render"
    /\ idx > Len(scenes)
    /\ pc' = "audio"
    /\ idx' = 1
    /\ UNCHANGED <<mode, scenes, title, scene_videos, audio_files, wav_path,
                   target_duration, current_duration, remaining, factors, filters,
                   fs, concat_text, audio_concat_text, demuxed, procs, written,
                   err, result>>

\* _generate_audio: the speech of the next scene is synthesised and
\* process_audio is entered.
GenerateSpeech ==
    /\ pc = "audio"
    /\ idx <= Len(scenes)
    /\ LET p == audio_path(SceneAt(idx)["scene_number"])
       IN  /\ wav_path' = p
           /\ fs' = fs \cup {p}
           /\ written' = written \cup {p}
    /\ target_duration' = SceneAt(idx)["duration_seconds"]
    /\ pc' = "pa_probe"
    /\ UNCHANGED <<mode, scenes, title, idx, scene_videos, audio_files,
                   current_duration, remaining, factors, filters, concat_text,
                   audio_concat_text, demuxed, procs, err, result>>

AudioDone ==
    /\ pc = "audio"
    /\ idx > Len(scenes)
    /\ pc' = "compose"
    /\ UNCHANGED <<mode, scenes, title, idx, scene_videos, audio_files, wav_path,
                   target_duration, current_duration, remaining, factors, filters,
                   fs, concat_text, audio_concat_text, demuxed, procs, written,
                   err, result>>

\* process_audio: current_duration = self._probe_duration(wav_path)
ProbeDuration ==
    /\ pc = "pa_probe"
    /\ LET cmd == Cmd("probe", "ffprobe", <<wav_path>>, NoPath)
       IN  /\ Launch(cmd)
           /\ \/ /\ \E d \in 0..MaxDur : current_duration' = d
                 /\ pc' = "pa_speed"
                 /\ UNCHANGED err
              \/ /\ Raise("CalledProcessError", cmd)
                 /\ UNCHANGED current_duration
    /\ UNCHANGED <<mode, scenes, title, idx, scene_videos, audio_files, wav_path,
                   target_duration, remaining, factors, filters, fs, concat_text,
                   audio_concat_text, demuxed, written, result>>

\* process_audio: speed_factor = current_duration / target_duration, and the
\* entry of _split_speed_factor.
ComputeSpeed ==
    /\ pc = "pa_speed"
    /\ \/ /\ target_duration = 0
          /\ Raise("ZeroDivisionError", NoCmd)
          /\ UNCHANGED <<remaining, factors>>
       \/ /\ target_duration # 0
          /\ remaining' = speed_factor(current_duration, target_duration)
          /\ factors' = <<>>
          /\ pc' = "pa_split"
          /\ UNCHANGED err
    /\ UNCHANGED <<mode, scenes, title, idx, scene_videos, audio_files, wav_path,
                   target_duration, current_duration, filters, fs, concat_text,
                   audio_concat_text, demuxed, procs, written, result>>

\* _split_speed_factor: one iteration of the while loop.
SplitStep ==
    /\ pc = "pa_split"
    /\ LoopCond(remaining)
    /\ Len(factors) < MaxStages
    /\ factors' = Append(factors, Segment(remaining))
    /\ remaining' = Div(remaining, Segment(remaining))
    /\ UNCHANGED <<mode, pc, scenes, title, idx, scene_videos, audio_files,
                   wav_path, target_duration, current_duration, filters, fs,
                   concat_text, audio_concat_text, demuxed, procs, written, err,
                   result>>

\* _split_speed_factor: the loop ends, the remainder is appended, and
\* process_audio builds the filter list.
SplitReturn ==
    /\ pc = "pa_split"
    /\ ~LoopCond(remaining)
    /\ factors' = split_return(factors, remaining)
    /\ filters' = atempo_filters(factors')
    /\ pc' = "pa_run"
    /\ UNCHANGED <<mode, scenes, title, idx, scene_videos, audio_files, wav_path,
                   target_duration, current_duration, remaining, fs, concat_text,
                   audio_concat_text, demuxed, procs, written, err, result>>

\* process_audio returns: its arguments and locals are gone.
ReturnFromProcessAudio ==
    /\ wav_path' = NoPath
    /\ target_duration' = 0
    /\ current_duration' = 0
    /\ remaining' = NoRat
    /\ factors' = <<>>
    /\ filters' = <<>>

\* process_audio: subprocess.run(cmd, capture_output=True, check=True) and the
\* return to the caller.  (pitch_shift is None: no caller passes it.)
RunStretch ==
    /\ pc = "pa_run"
    /\ LET out == processed_path(wav_path)
           cmd == Cmd("align", "ffmpeg", <<wav_path>>, out)
       IN  /\ Launch(cmd)
           /\ \/ \* exit 0
                 /\ fs' = fs \cup {out}
                 /\ written' = written \cup {out}
                 /\ UNCHANGED err
                 /\ ReturnFromProcessAudio
                 /\ \/ /\ mode = "pipeline"
                       /\ audio_files' = Append(audio_files, out)
                       /\ idx' = idx + 1
                       /\ pc' = "audio"
                       /\ UNCHANGED result
                    \/ /\ mode = "audio"
                       /\ result' = out
                       /\ pc' = "done"
                       /\ UNCHANGED <<audio_files, idx>>
              \/ \* non-zero exit; the output may have been partly written
                 /\ Raise("CalledProcessError", cmd)
                 /\ \/ /\ fs' = fs \cup {out}
                       /\ written' = written \cup {out}
                    \/ UNCHANGED <<fs, written>>
                 /\ UNCHANGED <<audio_files, idx, result, wav_path,
                                target_duration, current_duration, remaining,
                                factors, filters>>
    /\ UNCHANGED <<mode, scenes, title, scene_videos, concat_text,
                   audio_concat_text, demuxed>>

\* compose_final_video: if len(scene_videos) != len(audio_files)
CountsDifferOneWay(v, a) == Len(v) > Len(a)
CountsDiffer(v, a) == Len(v) # Len(a)

ComposeCheck ==
    /\ pc = "compose"
    /\ \/ /\ CountsDiffer(scene_videos, audio_files)
          /\ Raise("ValueError", NoCmd)
       \/ /\ ~CountsDiffer(scene_videos, audio_files)
          /\ pc' = "c_write"
          /\ UNCHANGED err
    /\ UNCHANGED <<mode, scenes, title, idx, scene_videos, audio_files, wav_path,
                   target_duration, current_duration, remaining, factors, filters,
                   fs, concat_text, audio_concat_text, demuxed, procs, written,
                   result>>

\* concat_file.write_text(self._generate_concat_list(scene_videos))
WriteConcatList ==
    /\ pc = "c_write"
    /\ concat_text' = generate_concat_list(scene_videos)
    /\ fs' = fs \cup {concat_file}
    /\ written' = written \cup {concat_file}
    /\ pc' = "c_concat"
    /\ UNCHANGED <<mode, scenes, title, idx, scene_videos, audio_files, wav_path,
                   target_duration, current_duration, remaining, factors, filters,
                   audio_concat_text, demuxed, procs, err, result>>

\* 1. Concatenate videos (no audio): subprocess.run(cmd_concat, check=True)
\* Whether ffmpeg exits 0, and whether a failing ffmpeg leaves a partly
\* written output behind, is the tool's choice.
ConcatVideos ==
    /\ pc = "c_concat"
    /\ LET cmd == Cmd("concat_video", "ffmpeg", <<concat_file>>, video_no_audio)
       IN  /\ Launch(cmd)
           /\ demuxed' = [demuxed EXCEPT !.video = concat_demuxer_read(concat_text)]
           /\ \/ /\ fs' = fs \cup {video_no_audio}
                 /\ written' = written \cup {video_no_audio}
                 /\ pc' = "m_write"
                 /\ UNCHANGED err
              \/ /\ Raise("CalledProcessError", cmd)
                 /\ \/ /\ fs' = fs \cup {video_no_audio}
                       /\ written' = written \cup {video_no_audio}
                    \/ UNCHANGED <<fs, written>>
    /\ UNCHANGED <<mode, scenes, title, idx, scene_videos, audio_files, wav_path,
                   target_duration, current_duration, remaining, factors, filters,
                   concat_text, audio_concat_text, result>>

\* _merge_audios: concat_file.write_text("\n".join(f"file '{p.resolve()}'" ...))
WriteAudioConcat ==
    /\ pc = "m_write"
    /\ audio_concat_text' = generate_concat_list(audio_files)
    /\ fs' = fs \cup {audio_concat_file}
    /\ written' = written \cup {audio_concat_file}
    /\ pc' = "m_concat"
    /\ UNCHANGED <<mode, scenes, title, idx, scene_videos, audio_files, wav_path,
                   target_duration, current_duration, remaining, factors, filters,
                   concat_text, demuxed, procs, err, result>>

\* _merge_audios: subprocess.run(cmd, check=True)
ConcatAudios ==
    /\ pc = "m_concat"
    /\ LET cmd == Cmd("concat_audio", "ffmpeg", <<audio_concat_file>>, merged_path)
       IN  /\ Launch(cmd)
           /\ demuxed' = [demuxed EXCEPT !.audio = concat_demuxer_read(audio_concat_text)]
           /\ \/ /\ fs' = fs \cup {merged_path}
                 /\ written' = written \cup {merged_path}
                 /\ pc' = "m_unlink"
                 /\ UNCHANGED err
              \/ /\ Raise("CalledProcessError", cmd)
                 /\ \/ /\ fs' = fs \cup {merged_path}
                       /\ written' = written \cup {merged_path}
                    \/ UNCHANGED <<fs, written>>
    /\ UNCHANGED <<mode, scenes, title, idx, scene_videos, audio_files, wav_path,
                   target_duration, current_duration, remaining, factors, filters,
                   concat_text, audio_concat_text, result>>

\* _merge_audios: concat_file.unlink(missing_ok=True); return merged_path
UnlinkAudioConcat ==
    /\ pc = "m_unlink"
    /\ fs' = fs \ {audio_concat_file}
    /\ pc' = "c_mux"
    /\ UNCHANGED <<mode, scenes, title, idx, scene_videos, audio_files, wav_path,
                   target_duration, current_duration, remaining, factors, filters,
                   concat_text, audio_concat_text, demuxed, procs, written, err,
                   result>>

\* 3. Combine concatenated video with merged audio:
\* subprocess.run(cmd_mux, check=True)
Mux ==
    /\ pc = "c_mux"
    /\ LET out == final_path(title)
           cmd == Cmd("mux", "ffmpeg", <<video_no_audio, merged_path>>, out)
       IN  /\ Launch(cmd)
           /\ \/ /\ fs' = fs \cup {out}
                 /\ written' = written \cup {out}
                 /\ pc' = "c_cleanup"
                 /\ UNCHANGED err
              \/ /\ Raise("CalledProcessError", cmd)
                 /\ \/ /\ fs' = fs \cup {out}
                       /\ written' = written \cup {out}
                    \/ UNCHANGED <<fs, written>>
    /\ UNCHANGED <<mode, scenes, title, idx, scene_videos, audio_files, wav_path,
                   target_duration, current_duration, remaining, factors, filters,
                   concat_text, audio_concat_text, demuxed, result>>

\* Cleanup temp files: the three unlink(missing_ok=True) calls
CleanupKeepsManifest == {video_no_audio, merged_path}
CleanupSet == {video_no_audio, merged_path, concat_file}

Cleanup ==
    /\ pc = "c_cleanup"
    /\ fs' = fs \ CleanupSet
    /\ result' = final_path(title)
    /\ pc' = "done"
    /\ UNCHANGED <<mode, scenes, title, idx, scene_videos, audio_files, wav_path,
                   target_duration, current_duration, remaining, factors, filters,
                   concat_text, audio_concat_text, demuxed, procs, written, err>>

\* ----------------------------------------------------------- specifications
Next ==
    \/ RenderScene
    \/ RenderDone
    \/ GenerateSpeech
    \/ AudioDone
    \/ ProbeDuration
    \/ ComputeSpeed
    \/ SplitStep
    \/ SplitReturn
    \/ RunStretch
    \/ ComposeCheck
    \/ WriteConcatList
    \/ ConcatVideos
    \/ WriteAudioConcat
    \/ ConcatAudios
    \/ UnlinkAudioConcat
    \/ Mux
    \/ Cleanup

\* generate_video, or compose_final_video called on its own.
Spec == Init /\ [][Next]_vars

\* process_audio called on its own, over every probed and target duration.
NextAudio ==
    \/ ProbeDuration
    \/ ComputeSpeed
    \/ SplitStep
    \/ SplitReturn
    \/ RunStretch

SpecAudio == InitAudio /\ [][NextAudio]_vars

\* The interpreter keeps executing the loop of _split_speed_factor.
FairSpecAudio == SpecAudio /\ WF_vars(SplitStep) /\ WF_vars(SplitReturn)

\* --- the manifest alone: written from a list of paths, read by the demuxer ---
PathTokens == {"a", SQ, NL, SP}

Paths == UNION { [1..n -> PathTokens] : n \in 1..MaxPathLen }

PathLists == UNION { [1..n -> Paths] : n \in 0..MaxList }

InitManifest ==
    /\ mode = "manifest"
    /\ pc = "gen"
    /\ scenes = <<>>
    /\ title = <<>>
    /\ idx = 1
    /\ scene_videos \in PathLists
    /\ audio_files = <<>>
    /\ Unset
    /\ Clean

\* _generate_concat_list(videos)
GenerateConcatList ==
    /\ pc = "gen"
    /\ concat_text' = generate_concat_list(scene_videos)
    /\ pc' = "read"
    /\ UNCHANGED <<mode, scenes, title, idx, scene_videos, audio_files, wav_path,
                   target_duration, current_duration, remaining, factors, filters,
                   fs, audio_concat_text, demuxed, procs, written, err, result>>

\* ffmpeg -f concat -safe 0 -i <manifest>: the manifest is read back
DemuxerRead ==
    /\ pc = "read"
    /\ demuxed' = [demuxed EXCEPT !.video = concat_demuxer_read(concat_text)]
    /\ pc' = "done"
    /\ UNCHANGED <<mode, scenes, title, idx, scene_videos, audio_files, wav_path,
                   target_duration, current_duration, remaining, factors, filters,
                   fs, concat_text, audio_concat_text, procs, written, err, result>>

NextManifest == GenerateConcatList \/ DemuxerRead

SpecManifest == InitManifest /\ [][NextManifest]_vars

\* ------------------------------------------------------------------- claims
Launched(stage) == \E i \in 1..Len(procs) : procs[i].stage = stage

ComposeStages == {"concat_video", "concat_audio", "mux"}

Mul(a, b) == Rat(a[1] * b[1], a[2] * b[2])

RECURSIVE Product(_)
Product(fcts) == IF fcts = <<>> THEN <<1, 1>> ELSE Mul(fcts[1], Product(Tail(fcts)))

\* The speed ratio r handed to _split_speed_factor is positive.
PositiveRatio == current_duration > 0 /\ target_duration > 0

SpeedRatio == Rat(current_duration, target_duration)

\* C1: a call of compose_final_video with lists of different lengths ends in
\* the ValueError, with no external process launched and no file written.
C1_MismatchFailsFast ==
    (mode = "compose" /\ Len(scene_videos) # Len(audio_files)) =>
        /\ pc \in {"compose", "failed"}
        /\ pc = "failed" => err = Error("ValueError", NoCmd)
        /\ procs = <<>>
        /\ written = {}
        /\ fs = {}
        /\ concat_text = <<>> /\ audio_concat_text = <<>>

C1_Witness ==
    /\ mode = "compose"
    /\ Len(scene_videos) = 2 /\ Len(audio_files) = 1
    /\ pc = "failed"
    /\ err.type = "ValueError"

\* C2: for every ratio r > 0 the loop of _split_speed_factor is left, and the
\* product of the factors it returns is r.
C2_SplitTerminatesWithProduct ==
    /\ []((pc = "pa_run" /\ PositiveRatio) => Product(factors) = SpeedRatio)
    /\ ((pc = "pa_split" /\ PositiveRatio) ~> (pc = "pa_run"))

C2_Witness ==
    /\ pc = "pa_run"
    /\ current_duration = 1 /\ target_duration = MaxDur
    /\ Len(factors) > 2
    /\ Product(factors) = SpeedRatio

\* C3: for r > 0 the returned list is one stage when 0.5 <= r <= 2; otherwise
\* every stage but the last is exactly 2.0 (r > 2) or exactly 0.5 (r < 0.5) and
\* the last lies in [0.5, 2.0]; speed 8.0 gives [2.0, 2.0, 2.0].
C3_StageShape ==
    (pc = "pa_run" /\ PositiveRatio) =>
        LET r == SpeedRatio
            n == Len(factors)
        IN  /\ n >= 1
            /\ (Leq(Half, r) /\ Leq(r, Two)) => n = 1
            /\ Lt(Two, r) => \A i \in 1..(n - 1) : factors[i] = Two
            /\ Lt(r, Half) => \A i \in 1..(n - 1) : factors[i] = Half
            /\ Leq(Half, factors[n]) /\ Leq(factors[n], Two)
            /\ r = <<8, 1>> => factors = <<Two, Two, Two>>

C3_Witness ==
    /\ pc = "pa_run"
    /\ current_duration = 8 /\ target_duration = 1
    /\ factors = <<Two, Two, Two>>

\* C4: process_audio with a target duration of zero or less raises without
\* attempting alignment: no duration probe and no time-stretch is launched,
\* and the decomposition loop is never entered.
C4_NonPositiveTargetRejected ==
    (wav_path # NoPath /\ target_duration <= 0) =>
        /\ procs = <<>>
        /\ pc \in {"pa_probe", "failed"}

\* The scene numbers behind a list of rendered clips, of aligned clips, and of
\* the files a manifest names.
ClipOf(n) ==
    {render_path(SceneName(n)), resolve(render_path(SceneName(n))),
     processed_path(audio_path(n)), resolve(processed_path(audio_path(n)))}

ClipNumbers(clips) ==
    [i \in 1..Len(clips) |->
        IF \E n \in 1..MaxScenes : clips[i] \in ClipOf(n)
        THEN CHOOSE n \in 1..MaxScenes : clips[i] \in ClipOf(n)
        ELSE 0]

Ascending(ns) == \A i, j \in 1..Len(ns) : i < j => ns[i] < ns[j]

SceneNumbers == [i \in 1..Len(scenes) |-> scenes[i]["scene_number"]]

Resolved(ps) == [i \in 1..Len(ps) |-> resolve(ps[i])]

\* C5 as claimed: the clip list, the aligned-audio list and both manifests are
\* in ascending scene_number order whatever the order of the scenes list.
C5_ListsAscendingBySceneNumber ==
    mode = "pipeline" =>
        /\ Ascending(ClipNumbers(scene_videos))
        /\ Ascending(ClipNumbers(audio_files))
        /\ Ascending(ClipNumbers(demuxed.video.files))
        /\ Ascending(ClipNumbers(demuxed.audio.files))

\* C5, amended: the clip list, the aligned-audio list and both manifests follow
\* the order of the scenes list, so they are in ascending scene_number order
\* exactly when the scenes list is.
C5_ListsFollowSceneListOrder ==
    mode = "pipeline" =>
        /\ \A i \in 1..Len(scene_videos) :
               scene_videos[i] = render_path(scenes[i]["scene_name"])
        /\ \A i \in 1..Len(audio_files) :
               audio_files[i] = processed_path(audio_path(scenes[i]["scene_number"]))
        /\ Launched("concat_video") =>
               /\ Len(scene_videos) = Len(scenes)
               /\ demuxed.video = [ok |-> TRUE, files |-> Resolved(scene_videos)]
               /\ ClipNumbers(demuxed.video.files) = SceneNumbers
        /\ Launched("concat_audio") =>
               /\ Len(audio_files) = Len(scenes)
               /\ demuxed.audio = [ok |-> TRUE, files |-> Resolved(audio_files)]
               /\ ClipNumbers(demuxed.audio.files) = SceneNumbers
        /\ pc = "done" =>
               /\ Ascending(ClipNumbers(scene_videos)) <=> Ascending(SceneNumbers)
               /\ Ascending(ClipNumbers(audio_files)) <=> Ascending(SceneNumbers)

C5_Witness ==
    /\ mode = "pipeline"
    /\ pc = "done"
    /\ SceneNumbers = <<2, 1>>
    /\ ClipNumbers(demuxed.video.files) = <<2, 1>>
    /\ ClipNumbers(demuxed.audio.files) = <<2, 1>>

\* C6: a composition over empty lists is rejected before anything happens: no
\* concat or mux process is launched and no manifest is written.
C6_EmptyListRejected ==
    (scene_videos = <<>> /\ audio_files = <<>>) =>
        /\ \A i \in 1..Len(procs) : procs[i].stage \notin ComposeStages
        /\ concat_file \notin written
        /\ audio_concat_file \notin written

\* C7: when a step fails the call ends with an error, cleanup has not been
\* performed and no file exists at the deliverable path.  (Stated for titles
\* whose deliverable path is not the path of the no-audio intermediate.)
C7_FailureLeavesNoDeliverable ==
    (pc = "failed" /\ mode # "audio" /\ final_path(title) # video_no_audio) =>
        /\ err # NoErr
        /\ (written \cap {concat_file, video_no_audio, merged_path}) \subseteq fs
        /\ final_path(title) \notin fs

Intermediates == {concat_file, audio_concat_file, video_no_audio, merged_path}

MuxCompleted == Launched("mux") /\ pc \in {"c_cleanup", "done"}

Deleted(f) == f \in fs /\ f \notin fs'

\* C8 as claimed: after a successful return all four intermediates are gone,
\* and none of them is deleted before the mux has completed.
C8_NoIntermediateDeletedBeforeMux ==
    /\ [](pc = "done" => Intermediates \cap fs = {})
    /\ [][\A f \in Intermediates : Deleted(f) => MuxCompleted]_vars

\* C8, amended: after a successful return all four intermediates are gone; the
\* video manifest, the no-audio video and the merged audio are not deleted
\* before the mux has completed; the audio manifest is deleted as soon as the
\* audio concatenation has completed, before the mux is launched.
C8_IntermediatesDeletedOnSuccess ==
    /\ [](pc = "done" => Intermediates \cap fs = {})
    /\ [][\A f \in {concat_file, video_no_audio, merged_path} :
             Deleted(f) => MuxCompleted]_vars
    /\ [][Deleted(audio_concat_file) =>
             (Launched("concat_audio") /\ merged_path \in fs /\ ~Launched("mux"))]_vars

C8_Witness ==
    /\ pc = "done"
    /\ mode = "pipeline"
    /\ Len(scenes) = 2
    /\ written \cap Intermediates = Intermediates
    /\ final_path(title) \in fs

\* C9: reading the manifest back gives exactly the absolute paths it was
\* written from, in order, whatever characters the paths contain.
C9_ManifestRoundTrip ==
    (mode = "manifest" /\ pc = "done") =>
        demuxed.video = [ok |-> TRUE, files |-> Resolved(scene_videos)]

\* The duration of the aligned clip: the source duration divided by the
\* product of the tempo values of the filter chain.
TempoProduct == Product([i \in 1..Len(filters) |-> Rat(filters[i], 1000)])

AlignedDuration == Div(<<current_duration, 1>>, TempoProduct)

\* C10: for positive source and target durations the tempo values written
\* into the filter chain give a clip whose duration is within 1e-6 (relative)
\* of the target.
C10_AlignedDurationMatchesTarget ==
    (pc = "pa_run" /\ PositiveRatio) =>
        LET a == AlignedDuration
            t == target_duration
        IN  Abs(a[1] - t * a[2]) <= (t * a[2]) \div 1000000

\* The characters Python's str.isspace() accepts, among the tokens of a title.
WhitespaceTokens == {SP, TAB, NL, "\r"}

AllWhitespaceReplaced(t) ==
    [i \in 1..Len(t) |-> IF t[i] \in WhitespaceTokens THEN "_" ELSE t[i]]

\* C11: the deliverable is written to the output directory under the title
\* with every whitespace character replaced by the separator, ".mp4" added and
\* no other suffix.
C11_TitleWhitespaceReplaced ==
    \A i \in 1..Len(procs) :
        procs[i].stage = "mux" =>
            procs[i].output = output_dir(AllWhitespaceReplaced(title) \o <<".mp4">>)

\* What a CalledProcessError holds of the command that failed is its argument
\* vector: the program, the input paths and the output path.  The stage and
\* the scene are read off these alone.
StageOfArgv(cmd) ==
    IF cmd.prog = "ffprobe" THEN "probe"
    ELSE IF cmd.prog # "ffmpeg" THEN "render"
    ELSE IF Len(cmd.inputs) = 2 THEN "mux"
    ELSE IF cmd.inputs = <<concat_file>> THEN "concat_video"
    ELSE IF cmd.inputs = <<audio_concat_file>> THEN "concat_audio"
    ELSE "align"

ScenesOfArgv(cmd) == {n \in 1..MaxScenes : cmd.inputs = <<audio_path(n)>>}

ToolSteps == {"pa_probe", "pa_run", "c_concat", "m_concat", "c_mux"}

StageAt(p) ==
    CASE p = "pa_probe" -> "probe"
      [] p = "pa_run"   -> "align"
      [] p = "c_concat" -> "concat_video"
      [] p = "m_concat" -> "concat_audio"
      [] p = "c_mux"    -> "mux"

AlignedClips == {processed_path(audio_path(n)) : n \in 1..MaxScenes} \cap written

\* C13: after a successful run of the pipeline none of the aligned speech
\* clips remains on disk.
C13_AlignedClipsTransient ==
    (mode = "pipeline" /\ pc = "done") => AlignedClips \cap fs = {}

IsPrefix(a, b) == Len(a) <= Len(b) /\ a = SubSeq(b, 1, Len(a))

\* The processes of one run of the pipeline over the scene list, in the order
\* the claim gives: the renders, then for each scene in list order the probe
\* and the time-stretch of its speech, then the two concatenations and the mux.
RenderCmds ==
    [i \in 1..Len(scenes) |->
        Cmd("render", "manim", <<scene_file(scenes[i].scene_name)>>,
            render_path(scenes[i].scene_name))]

AlignCmds ==
    [j \in 1..(2 * Len(scenes)) |->
        LET w == audio_path(scenes[(j + 1) \div 2].scene_number)
        IN  IF j % 2 = 1
            THEN Cmd("probe", "ffprobe", <<w>>, NoPath)
            ELSE Cmd("align", "ffmpeg", <<w>>, processed_path(w))]

ComposeCmds ==
    << Cmd("concat_video", "ffmpeg", <<concat_file>>, video_no_audio),
       Cmd("concat_audio", "ffmpeg", <<audio_concat_file>>, merged_path),
       Cmd("mux", "ffmpeg", <<video_no_audio, merged_path>>, final_path(title)) >>

RunOrder == RenderCmds \o AlignCmds \o ComposeCmds

\* C14: the processes of a run are launched one after another in the fixed
\* order (each scene aligned once, in scene-list order, then video
\* concatenation, audio concatenation, mux); a process is launched only after
\* every earlier one has exited 0 and left its output, a failed process is the
\* last one launched, and the cleanup happens only after the whole sequence.
C14_SequentialOrder ==
    mode = "pipeline" =>
        /\ IsPrefix(procs, RunOrder)
        /\ \A i \in 1..(Len(procs) - 1) :
               procs[i].output # NoPath => procs[i].output \in written
        /\ (pc = "failed" /\ err.cmd # NoCmd) => err.cmd = procs[Len(procs)]
        /\ pc \in {"c_cleanup", "done"} => procs = RunOrder
        /\ (\E f \in CleanupSet : f \in written /\ f \notin fs) =>
               (pc = "done" /\ procs = RunOrder)

C14_Witness ==
    /\ mode = "pipeline"
    /\ pc = "done"
    /\ Len(scenes) = 2
    /\ scenes[1].scene_number = 2
    /\ procs = RunOrder
    /\ Len(procs) = 9

\* C15: for every title the deliverable's path is none of the fixed-name
\* intermediates the mux reads or the cleanup deletes, and when
\* compose_final_video returns the file at the returned path exists.
C15_DeliverableExistsOnReturn ==
    /\ \A i \in 1..Len(procs) :
           procs[i].stage = "mux" => procs[i].output \notin Intermediates
    /\ (mode \in {"pipeline", "compose"} /\ pc = "done") => result \in fs

\* C16: for a probed duration >= 0 and a target > 0 process_audio terminates.
\* The decomposition loop is deterministic in `remaining`, so it terminates
\* only if no iteration hands the next one the value it started from: an
\* iteration that leaves `remaining` where it was is repeated without end.
C16_SplitLoopProgresses ==
    [][ (/\ pc = "pa_split" /\ pc' = "pa_split"
         /\ target_duration > 0 /\ current_duration >= 0) =>
            remaining' # remaining ]_vars
====
